---------------------------- MODULE Spec2Model ----------------------------
(***************************************************************************)
(* Model of app.py of youtube_video_summarizer: the URL resolver           *)
(* extract_video_id, the transcript acquirer get_transcript, the           *)
(* summarizer generate_summary, the title lookup get_video_title, and the  *)
(* pipeline main() that composes them.                                     *)
(*                                                                         *)
(* Python strings are sequences of one-character strings, so that slicing, *)
(* joining and regular-expression search are computed, not assumed.        *)
(***************************************************************************)
EXTENDS Integers, Sequences, FiniteSets, TLC

VARIABLES
    pc,              \* position of the run: in main(), or the function a unit call returned from
    youtube_url,     \* st.text_input value (app.py:81), argument of extract_video_id
    summarize_btn,   \* st.button value (app.py:89)
    video_id,        \* result of extract_video_id (app.py:100)
    video_title,     \* result of get_video_title (app.py:107)
    transcript,      \* first component of get_transcript's result (app.py:119)
    sentence_count,  \* second component of get_transcript's result (app.py:119)
    summary,         \* result of generate_summary (app.py:135)
    rendered,        \* the status and output widgets rendered so far, in order
    calls,           \* the external calls made so far, in order
    page,            \* behaviour of requests.get for this run
    api,             \* behaviour of YouTubeTranscriptApi.get_transcript, per successive call
    cap,             \* behaviour of the transformers summarization pipeline
    text_in,         \* argument text of generate_summary
    cap_text,        \* text handed to the summarization capability
    uncaught         \* exception that escaped to the caller, NoExc when none

vars == <<pc, youtube_url, summarize_btn, video_id, video_title, transcript,
          sentence_count, summary, rendered, calls, page, api, cap, text_in,
          cap_text, uncaught>>

----------------------------------------------------------------------------
(* Bounds of the checked input space. *)

\* URL token runs have TokenLen - MaxRunExtra .. TokenLen + MaxRunExtra characters.
MaxRunExtra == 1
\* Transcript responses carry at most MaxSegs segments.
MaxSegs == 2
\* Summarizer input texts reach TruncLimit + MaxOver characters (and 2 * TruncLimit).
MaxOver == 1

(* Constants of the program. *)

\* {11} in the three patterns
TokenLen == 11
\* len(text) > 1000, text[:1000]
TruncLimit == 1000
\* text[:500]
FallbackLen == 500
\* generate_summary(text, max_length=150, min_length=30)
DefaultMaxLength == 150
DefaultMinLength == 30

----------------------------------------------------------------------------
(* Python values. *)

\* None; no string of one-character strings equals it.
None == <<"None">>

\* Python truthiness of an optional string: `not x`.
not_(x) == x = None \/ x = <<>>

Min(a, b) == IF a < b THEN a ELSE b

\* s[:n]
Slice(s, n) == SubSeq(s, 1, Min(n, Len(s)))

\* s[i:]
SliceFrom(s, i) == SubSeq(s, i, Len(s))

\* s.startswith(p) at 1-based position i
HasAt(s, i, p) ==
    /\ i + Len(p) - 1 <= Len(s)
    /\ SubSeq(s, i, i + Len(p) - 1) = p

\* Exceptions are records; NoExc stands for "nothing raised".
NoExc == [class |-> "None", msg |-> <<>>]
Exc(c, m) == [class |-> c, msg |-> m]

\* Result of a try body or of a function: a value, or a raised exception.
Return(v) == [raised |-> NoExc, value |-> v]
Raise(e) == [raised |-> e, value |-> None]

----------------------------------------------------------------------------
(* String literals. *)

LIT_v_eq == <<"v", "=">>
LIT_slash == <<"/">>
LIT_embed == <<"e", "m", "b", "e", "d", "/">>
LIT_shorts == <<"s", "h", "o", "r", "t", "s", "/">>
Dots == <<".", ".", ".">>
Space == <<" ">>
FailHead == <<"S", "u", "m", "m", "a", "r", "y", " ", "g", "e", "n", "e", "r", "a", "t", "i", "o", "n", " ", "f", "a", "i", "l", "e", "d", ":", " ">>
FailMid == <<".", " ", "H", "e", "r", "e", " ", "a", "r", "e", " ", "t", "h", "e", " ", "f", "i", "r", "s", "t", " ", "5", "0", "0", " ", "c", "h", "a", "r", "a", "c", "t", "e", "r", "s", ":", " ">>
KeyErrorText == <<"'", "s", "u", "m", "m", "a", "r", "y", "_", "t", "e", "x", "t", "'">>
IndexErrorText == <<"l", "i", "s", "t", " ", "i", "n", "d", "e", "x", " ", "o", "u", "t", " ", "o", "f", " ", "r", "a", "n", "g", "e">>
\* [0-9A-Za-z_-]
TokenChars == {"0", "1", "2", "3", "4", "5", "6", "7", "8", "9", "A", "B", "C", "D", "E", "F", "G", "H", "I", "J", "K", "L", "M", "N", "O", "P", "Q", "R", "S", "T", "U", "V", "W", "X", "Y", "Z", "a", "b", "c", "d", "e", "f", "g", "h", "i", "j", "k", "l", "m", "n", "o", "p", "q", "r", "s", "t", "u", "v", "w", "x", "y", "z", "_", "-"}

----------------------------------------------------------------------------
(* extract_video_id, app.py:15-27 *)

\* The capture group ([0-9A-Za-z_-]{11}) matches at position i of url.
TokenRunAt(url, i) ==
    /\ i >= 1
    /\ i + TokenLen - 1 <= Len(url)
    /\ \A j \in i .. (i + TokenLen - 1) : url[j] \in TokenChars

\* A pattern (?:p1|p2|...)([0-9A-Za-z_-]{11}) is the sequence of its
\* alternative literal prefixes, in the order the alternation tries them.
\* The trailing .* of the first pattern matches any remainder, the empty one
\* included, and so never decides a match nor changes group 1.
\* The pattern list with a first pattern that accepts `v=` only.
patterns_first_v_only ==
    << <<LIT_v_eq>>, <<LIT_embed>>, <<LIT_shorts>> >>

patterns ==
    << <<LIT_v_eq, LIT_slash>>, <<LIT_embed>>, <<LIT_shorts>> >>

\* The alternatives of pattern that match at position i of url.
AltsAt(pattern, url, i) ==
    { k \in 1 .. Len(pattern) :
        /\ HasAt(url, i, pattern[k])
        /\ TokenRunAt(url, i + Len(pattern[k])) }

\* Positions of url where pattern matches.
MatchPositions(pattern, url) ==
    { i \in 1 .. Len(url) : AltsAt(pattern, url, i) # {} }

SetMin(S) == CHOOSE x \in S : \A y \in S : x <= y

\* re.search(pattern, url) followed by match.group(1): the leftmost match,
\* at that position the first alternative that matches; None without match.
re_search_group1(pattern, url) ==
    LET pos == MatchPositions(pattern, url) IN
    IF pos = {} THEN None
    ELSE LET i == SetMin(pos)
             k == SetMin(AltsAt(pattern, url, i))
             s == i + Len(pattern[k])
         IN  SubSeq(url, s, s + TokenLen - 1)

\* for pattern in patterns: first pattern with a match returns its group 1.
extract_video_id(url) ==
    LET hits == { p \in 1 .. Len(patterns) :
                    re_search_group1(patterns[p], url) # None } IN
    IF hits = {} THEN None
    ELSE re_search_group1(patterns[SetMin(hits)], url)

----------------------------------------------------------------------------
(* get_video_title, app.py:29-38 *)

LIT_youtube_suffix == <<" ", "-", " ", "Y", "o", "u", "T", "u", "b", "e">>
UnknownTitle == <<"U", "n", "k", "n", "o", "w", "n", " ", "T", "i", "t", "l", "e">>

\* s.replace(old, new) for non-empty old: every non-overlapping occurrence,
\* scanning from the left.
RECURSIVE Replace(_, _, _)
Replace(s, old, new) ==
    IF s = <<>> THEN <<>>
    ELSE IF HasAt(s, 1, old)
         THEN new \o Replace(SliceFrom(s, Len(old) + 1), old, new)
         ELSE <<s[1]>> \o Replace(Tail(s), old, new)

\* pg is what requests.get and the parse yield: an exception, or the text of
\* the <title> element (None when the page has none).
get_video_title(pg) ==
    IF pg.raised # NoExc THEN UnknownTitle
    ELSE IF pg.title # None THEN Replace(pg.title, LIT_youtube_suffix, <<>>)
    ELSE UnknownTitle

----------------------------------------------------------------------------
(* get_transcript, app.py:40-47 *)

\* Join that drops the separator.
RECURSIVE Join_no_sep(_, _)
Join_no_sep(sep, xs) ==
    IF xs = <<>> THEN <<>> ELSE xs[1] \o Join_no_sep(sep, Tail(xs))

\* sep.join(xs)
RECURSIVE Join(_, _)
Join(sep, xs) ==
    IF xs = <<>> THEN <<>>
    ELSE IF Len(xs) = 1 THEN xs[1]
    ELSE xs[1] \o sep \o Join(sep, Tail(xs))

\* Exception classes that `except Exception` catches (subclasses of
\* Exception); KeyboardInterrupt and SystemExit are not among them.
ExceptionSubclasses ==
    {"KeyError", "IndexError", "TypeError", "RuntimeError", "OSError",
     "ConnectionError", "TranscriptsDisabled", "NoTranscriptFound",
     "CouldNotRetrieveTranscript"}

except_Exception(e) == e.class \in ExceptionSubclasses

LIT_text_key == <<"'", "t", "e", "x", "t", "'">>

\* The try body, lines 43-45. a is the capability's behaviour: a[n] is its
\* response to the n-th call, either raising or returning a list of items.
get_transcript_try(a) ==
    LET r == a[1] IN
    IF r.raised # NoExc THEN Raise(r.raised)
    ELSE IF \E i \in 1 .. Len(r.items) : "text" \notin DOMAIN r.items[i]
         THEN Raise(Exc("KeyError", LIT_text_key))
         ELSE Return(<< Join(Space, [i \in 1 .. Len(r.items) |-> r.items[i].text]),
                        Len(r.items) >>)

\* get_transcript with a second attempt after a failed first one.
get_transcript_retry_once(a) ==
    LET t == get_transcript_try(a)
        u == get_transcript_try(Tail(a)) IN
    IF t.raised = NoExc
    THEN [raised |-> NoExc, value |-> t.value, ncalls |-> 1]
    ELSE [raised |-> NoExc,
          value |-> IF u.raised = NoExc THEN u.value ELSE <<None, 0>>,
          ncalls |-> 2]

\* What a caller of get_transcript observes: the returned pair or the
\* exception that escaped, and the calls made to the capability.
get_transcript(a) ==
    LET t == get_transcript_try(a) IN
    IF t.raised # NoExc /\ except_Exception(t.raised)
    THEN [raised |-> NoExc, value |-> <<None, 0>>, ncalls |-> 1]
    ELSE [raised |-> t.raised, value |-> t.value, ncalls |-> 1]

----------------------------------------------------------------------------
(* generate_summary, app.py:49-71 *)

\* The length check with >= in place of >.
pre_truncate_at_limit(text) ==
    IF Len(text) >= TruncLimit THEN Slice(text, TruncLimit) \o Dots ELSE text

\* Lines 60-61: the text after the length check.
pre_truncate(text) ==
    IF Len(text) > TruncLimit THEN Slice(text, TruncLimit) \o Dots ELSE text

\* The try body, lines 53-69. c is the capability's behaviour: constructing
\* the pipeline raises or not, calling it raises or returns a list of
\* records. `text` is the local variable as the except clause finds it,
\* `passed` the text the capability was called with (None when not called).
generate_summary_try(text, max_length, min_length, c) ==
    LET t2 == pre_truncate(text) IN
    IF c.construct # NoExc
    THEN [raised |-> c.construct, value |-> None, text |-> text, passed |-> None]
    ELSE IF c.call # NoExc
    THEN [raised |-> c.call, value |-> None, text |-> t2, passed |-> t2]
    ELSE IF Len(c.result) = 0
    THEN [raised |-> Exc("IndexError", IndexErrorText), value |-> None,
          text |-> t2, passed |-> t2]
    ELSE IF "summary_text" \notin DOMAIN c.result[1]
    THEN [raised |-> Exc("KeyError", KeyErrorText), value |-> None,
          text |-> t2, passed |-> t2]
    ELSE [raised |-> NoExc, value |-> c.result[1].summary_text,
          text |-> t2, passed |-> t2]

\* The f-string without the [:500] slice.
fallback_no_slice(e, text) ==
    FailHead \o e.msg \o FailMid \o text \o Dots

\* Line 71: the f-string of the except clause; str(e) is e.msg.
fallback(e, text) ==
    FailHead \o e.msg \o FailMid \o Slice(text, FallbackLen) \o Dots

generate_summary(text, max_length, min_length, c) ==
    LET t == generate_summary_try(text, max_length, min_length, c) IN
    IF t.raised # NoExc /\ except_Exception(t.raised)
    THEN [raised |-> NoExc, value |-> fallback(t.raised, t.text),
          passed |-> t.passed,
          args |-> <<max_length, min_length>>]
    ELSE [raised |-> t.raised, value |-> t.value, passed |-> t.passed,
          args |-> <<max_length, min_length>>]

----------------------------------------------------------------------------
(* Inputs: URLs. *)

Scheme_https == <<"h", "t", "t", "p", "s", ":", "/", "/">>
Host_www == <<"w", "w", "w", ".", "y", "o", "u", "t", "u", "b", "e", ".", "c", "o", "m">>
Host_short == <<"y", "o", "u", "t", "u", ".", "b", "e">>
Host_nocookie == <<"y", "o", "u", "t", "u", "b", "e", "-", "n", "o", "c", "o", "o", "k", "i", "e", ".", "c", "o", "m">>
Host_example == <<"e", "x", "a", "m", "p", "l", "e", ".", "c", "o", "m">>
Shape_watch == <<"/", "w", "a", "t", "c", "h", "?", "v", "=">>
Shape_path == <<"/">>
Shape_embed == <<"/", "e", "m", "b", "e", "d", "/">>
Shape_shorts == <<"/", "s", "h", "o", "r", "t", "s", "/">>
Shape_share == <<"/", "w", "a", "t", "c", "h", "?", "f", "e", "a", "t", "u", "r", "e", "=", "s", "h", "a", "r", "e", "&", "v", "=">>
Shape_attribution == <<"/", "a", "t", "t", "r", "i", "b", "u", "t", "i", "o", "n", "_", "l", "i", "n", "k", "?", "v", "=">>
Shape_video == <<"/", "v", "i", "d", "e", "o">>
RunSource == <<"d", "Q", "w", "4", "w", "9", "W", "g", "X", "c", "Q", "_", "-", "7", "a", "Z">>
BrokenRun == <<"d", "Q", "w", "4", "w", "!", "W", "g", "X", "c", "Q">>
OtherToken == <<"a", "_", "b", "-", "c", "_", "d", "-", "e", "_", "f">>
Suffix_time == <<"&", "t", "=", "4", "2", "s">>

Schemes == {Scheme_https, <<>>}
Hosts == {Host_www, Host_short, Host_nocookie, Host_example}
\* Shapes that put a token after `v=`, after a path separator, after
\* `embed/` or after `shorts/`.
CanonicalShapes ==
    {Shape_watch, Shape_path, Shape_embed, Shape_shorts, Shape_share,
     Shape_attribution}
Shapes == CanonicalShapes \cup {Shape_video}
\* Runs of token characters of TokenLen +- MaxRunExtra characters, the empty
\* run, a run broken by a character outside the alphabet, a second token.
Runs ==
    { Slice(RunSource, n) :
        n \in (TokenLen - MaxRunExtra) .. (TokenLen + MaxRunExtra) }
    \cup {<<>>, BrokenRun, OtherToken}
Suffixes == {<<>>, Suffix_time}

UrlParts ==
    [scheme : Schemes, host : Hosts, shape : Shapes, run : Runs,
     suffix : Suffixes]

BuildUrl(p) == p.scheme \o p.host \o p.shape \o p.run \o p.suffix

\* URLs a pipeline run is started with; <<>> is the empty text input.
PipelineUrls ==
    { <<>>,
      Scheme_https \o Host_www \o Shape_watch \o Slice(RunSource, TokenLen),
      Scheme_https \o Host_short \o Shape_path \o Slice(RunSource, TokenLen),
      Scheme_https \o Host_www \o Shape_shorts \o OtherToken,
      Scheme_https \o Host_example \o Shape_video }

----------------------------------------------------------------------------
(* Inputs: texts, and behaviours of the external capabilities. *)

SegAlphabet == <<"a", "b", "c", "d", "e", "f", "g">>
Err_network == <<"t", "i", "m", "e", "o", "u", "t">>
Err_nocaptions == <<"n", "o", " ", "c", "a", "p", "t", "i", "o", "n", "s">>
Err_api == <<"a", "p", "i", " ", "e", "r", "r", "o", "r">>
Err_oom == <<"o", "u", "t", " ", "o", "f", " ", "m", "e", "m", "o", "r", "y">>
Err_model == <<"m", "o", "d", "e", "l", " ", "n", "o", "t", " ", "f", "o", "u", "n", "d">>
Sum_a == <<"A", " ", "s", "h", "o", "r", "t", " ", "s", "u", "m", "m", "a", "r", "y", ".">>
Sum_b == <<"S", "u", "m", "m", "a", "r", "y", " ", "g", "e", "n", "e", "r", "a", "t", "i", "o", "n", " ", "f", "a", "i", "l", "e", "d", ":", " ", "x">>
Title_cat == <<"C", "a", "t">> \o LIT_youtube_suffix

\* A text of n characters that is not periodic.
Text(n) ==
    [ i \in 1 .. n |->
        SegAlphabet[ ((i + (i \div 7) + (i \div 49) + (i \div 343))
                        % Len(SegAlphabet)) + 1 ] ]

\* Lengths around the two thresholds of generate_summary.
TextLens ==
    {0, 1, FallbackLen - 1, FallbackLen, FallbackLen + 1, TruncLimit - 1,
     TruncLimit, 2 * TruncLimit}
    \cup ((TruncLimit + 1) .. (TruncLimit + MaxOver))

SegLens == {0, 1, FallbackLen - 1, FallbackLen, TruncLimit}

\* Caption items: with a text field, or without one (malformed).
Items ==
    { [text |-> Text(n)] : n \in SegLens } \cup { [start |-> 0] }

ItemLists == UNION { [1 .. n -> Items] : n \in 0 .. MaxSegs }

ApiErrors ==
    { Exc("ConnectionError", Err_network),
      Exc("TranscriptsDisabled", Err_nocaptions),
      Exc("CouldNotRetrieveTranscript", Err_api) }

Responses ==
    { [raised |-> NoExc, items |-> l] : l \in ItemLists }
    \cup { [raised |-> e, items |-> <<>>] : e \in ApiErrors }

\* What the capability would answer to a second call.
SecondResponses ==
    { [raised |-> NoExc, items |-> << [text |-> Text(1)] >>],
      [raised |-> Exc("ConnectionError", Err_network), items |-> <<>>] }

ApiScripts == { <<r1, r2>> : r1 \in Responses, r2 \in SecondResponses }

Pages ==
    { [raised |-> Exc("ConnectionError", Err_network), title |-> None],
      [raised |-> NoExc, title |-> None],
      [raised |-> NoExc, title |-> Title_cat] }

CapResults ==
    { <<>>, << [score |-> 0] >>,
      << [summary_text |-> Sum_a] >>, << [summary_text |-> Sum_b] >> }

Caps ==
    { [construct |-> Exc("OSError", Err_model), call |-> NoExc, result |-> <<>>] }
    \cup { [construct |-> NoExc, call |-> e, result |-> <<>>] :
             e \in { Exc("RuntimeError", Err_oom), Exc("IndexError", Err_api) } }
    \cup { [construct |-> NoExc, call |-> NoExc, result |-> r] : r \in CapResults }

NoPage == [raised |-> NoExc, title |-> None]
NoApi == <<>>
NoCap == [construct |-> NoExc, call |-> NoExc, result |-> <<>>]

----------------------------------------------------------------------------
(* Messages rendered by main(); the emoji that prefix them are left out. *)

MSG_enter_url == "Please enter a YouTube URL"
MSG_invalid_url == "Invalid YouTube URL. Please check the link and try again."
MSG_no_transcript ==
    "Could not retrieve transcript. This video might not have captions available."
MSG_success == "Summary generated successfully!"
MSG_instructions ==
    "Enter a YouTube URL above and click 'Summarize Video' to get started!"

CALL_title == "requests.get"
CALL_transcript == "YouTubeTranscriptApi.get_transcript"
CALL_pipeline == "transformers.pipeline"
CALL_summarizer == "summarizer"

\* n copies of x
Repeat(x, n) == [ i \in 1 .. n |-> x ]

----------------------------------------------------------------------------
(* main(), app.py:73-186, one run of the script. *)

\* The state a run of the script starts from.
Fresh(p) ==
    /\ pc = p
    /\ youtube_url = <<>>
    /\ summarize_btn = FALSE
    /\ video_id = None
    /\ video_title = None
    /\ transcript = None
    /\ sentence_count = 0
    /\ summary = None
    /\ rendered = <<>>
    /\ calls = <<>>
    /\ page = NoPage
    /\ api = NoApi
    /\ cap = NoCap
    /\ text_in = None
    /\ cap_text = None
    /\ uncaught = NoExc

Init == Fresh("idle")

\* Lines 74-104 and 169-186: the widgets are read; without the button the
\* instructions are shown; with an empty URL the warning; otherwise the
\* identifier is extracted, and the run stops at an unrecognized URL.
main_start ==
    /\ pc \in {"idle", "done"}
    /\ \E url \in PipelineUrls, btn \in BOOLEAN :
        /\ youtube_url' = url
        /\ summarize_btn' = btn
        /\ IF ~btn
           THEN /\ rendered' = << <<"info", MSG_instructions>> >>
                /\ video_id' = None
                /\ pc' = "done"
           ELSE IF url = <<>>
           THEN /\ rendered' = << <<"warning", MSG_enter_url>> >>
                /\ video_id' = None
                /\ pc' = "done"
           ELSE /\ video_id' = extract_video_id(url)
                /\ IF not_(video_id')
                   THEN /\ rendered' = << <<"error", MSG_invalid_url>> >>
                        /\ pc' = "done"
                   ELSE /\ rendered' = <<>>
                        /\ pc' = "get_video_title"
    /\ video_title' = None
    /\ transcript' = None
    /\ sentence_count' = 0
    /\ summary' = None
    /\ calls' = <<>>
    /\ page' = NoPage
    /\ api' = NoApi
    /\ cap' = NoCap
    /\ text_in' = None
    /\ cap_text' = None
    /\ uncaught' = NoExc

\* Lines 106-116: the title lookup and the video information.
main_title ==
    /\ pc = "get_video_title"
    /\ \E pg \in Pages :
        /\ page' = pg
        /\ video_title' = get_video_title(pg)
    /\ calls' = Append(calls, CALL_title)
    /\ rendered' = rendered \o << <<"subheader", "Video Information">> >>
    /\ pc' = "get_transcript"
    /\ UNCHANGED <<youtube_url, summarize_btn, video_id, transcript,
                   sentence_count, summary, api, cap, text_in, cap_text,
                   uncaught>>

\* main_transcript without the `return` of line 123.
main_transcript_no_return ==
    /\ pc = "get_transcript"
    /\ \E a \in ApiScripts :
        LET r == get_transcript(a) IN
        /\ api' = a
        /\ calls' = calls \o Repeat(CALL_transcript, r.ncalls)
        /\ uncaught' = r.raised
        /\ transcript' = r.value[1]
        /\ sentence_count' = r.value[2]
        /\ rendered' = IF not_(r.value[1])
                       THEN rendered \o << <<"error", MSG_no_transcript>> >>
                       ELSE rendered
        /\ pc' = "generate_summary"
    /\ UNCHANGED <<youtube_url, summarize_btn, video_id, video_title, summary,
                   page, cap, text_in, cap_text>>

\* Lines 118-129: the transcript is fetched; the run stops when it is falsy.
main_transcript ==
    /\ pc = "get_transcript"
    /\ \E a \in ApiScripts :
        LET r == get_transcript(a) IN
        /\ api' = a
        /\ calls' = calls \o Repeat(CALL_transcript, r.ncalls)
        /\ uncaught' = r.raised
        /\ IF r.raised # NoExc
           THEN /\ pc' = "done"
                /\ UNCHANGED <<transcript, sentence_count, rendered>>
           ELSE /\ transcript' = r.value[1]
                /\ sentence_count' = r.value[2]
                /\ IF not_(r.value[1])
                   THEN /\ rendered' = rendered \o << <<"error", MSG_no_transcript>> >>
                        /\ pc' = "done"
                   ELSE /\ rendered' = rendered \o
                              << <<"metric", "Sentences in Transcript">>,
                                 <<"metric", "Characters in Transcript">> >>
                        /\ pc' = "generate_summary"
    /\ UNCHANGED <<youtube_url, summarize_btn, video_id, video_title, summary,
                   page, cap, text_in, cap_text>>

\* Lines 131-167: the summary is generated and shown with the transcript.
main_summary ==
    /\ pc = "generate_summary"
    /\ \E c \in Caps :
        LET r == generate_summary(transcript, DefaultMaxLength,
                                  DefaultMinLength, c) IN
        /\ cap' = c
        /\ text_in' = transcript
        /\ cap_text' = r.passed
        /\ calls' = calls \o <<CALL_pipeline>> \o
                      (IF r.passed # None THEN <<CALL_summarizer>> ELSE <<>>)
        /\ uncaught' = r.raised
        /\ IF r.raised # NoExc
           THEN UNCHANGED <<summary, rendered>>
           ELSE /\ summary' = r.value
                /\ rendered' = rendered \o
                      << <<"subheader", "Summary">>,
                         <<"success", MSG_success>>,
                         <<"text_area", "Summary">>,
                         <<"subheader", "Full Transcript">>,
                         <<"text_area", "Transcript">>,
                         <<"subheader", "Download">>,
                         <<"download_button", "Download Summary">>,
                         <<"download_button", "Download Full Transcript">> >>
    /\ pc' = "done"
    /\ UNCHANGED <<youtube_url, summarize_btn, video_id, video_title,
                   transcript, sentence_count, page, api>>

Next == main_start \/ main_title \/ main_transcript \/ main_summary

Spec == Init /\ [][Next]_vars

----------------------------------------------------------------------------
(* The three functions called on their own, each once from a fresh state,  *)
(* over their input spaces.                                                *)

UnitInit == Fresh("unit")

call_extract_video_id ==
    /\ pc = "unit"
    /\ \E p \in UrlParts :
        /\ youtube_url' = BuildUrl(p)
        /\ video_id' = extract_video_id(BuildUrl(p))
    /\ pc' = "extract_video_id"
    /\ UNCHANGED <<summarize_btn, video_title, transcript, sentence_count,
                   summary, rendered, calls, page, api, cap, text_in,
                   cap_text, uncaught>>

call_get_transcript ==
    /\ pc = "unit"
    /\ \E a \in ApiScripts :
        LET r == get_transcript(a) IN
        /\ api' = a
        /\ transcript' = r.value[1]
        /\ sentence_count' = r.value[2]
        /\ calls' = Repeat(CALL_transcript, r.ncalls)
        /\ uncaught' = r.raised
    /\ pc' = "get_transcript"
    /\ UNCHANGED <<youtube_url, summarize_btn, video_id, video_title, summary,
                   rendered, page, cap, text_in, cap_text>>

call_generate_summary ==
    /\ pc = "unit"
    /\ \E n \in TextLens, c \in Caps :
        LET r == generate_summary(Text(n), DefaultMaxLength,
                                  DefaultMinLength, c) IN
        /\ text_in' = Text(n)
        /\ cap' = c
        /\ summary' = r.value
        /\ cap_text' = r.passed
        /\ calls' = <<CALL_pipeline>> \o
                      (IF r.passed # None THEN <<CALL_summarizer>> ELSE <<>>)
        /\ uncaught' = r.raised
    /\ pc' = "generate_summary"
    /\ UNCHANGED <<youtube_url, summarize_btn, video_id, video_title,
                   transcript, sentence_count, rendered, page, api>>

UnitNext ==
    call_extract_video_id \/ call_get_transcript \/ call_generate_summary

UnitSpec == UnitInit /\ [][UnitNext]_vars


----------------------------------------------------------------------------
(* Properties. *)

Range(s) == { s[i] : i \in DOMAIN s }

\* A complete token: TokenLen characters, all of the token alphabet.
IsToken(s) == Len(s) = TokenLen /\ \A i \in 1 .. Len(s) : s[i] \in TokenChars

\* A token is recognizable at position i of url: a maximal run of exactly
\* TokenLen token characters that follows `v=` or a path separator (which
\* covers `embed/` and `shorts/`).
RecognizableAt(url, i) ==
    /\ TokenRunAt(url, i)
    /\ i + TokenLen > Len(url) \/ url[i + TokenLen] \notin TokenChars
    /\ \/ i >= 2 /\ url[i - 1] = "/"
       \/ i >= 3 /\ url[i - 2] = "v" /\ url[i - 1] = "="

\* The summarization capability fails: at construction, at the call, or by
\* a result without a first record carrying summary_text.
CapFails(c) ==
    \/ c.construct # NoExc
    \/ c.call # NoExc
    \/ Len(c.result) = 0
    \/ "summary_text" \notin DOMAIN c.result[1]

\* The retrieval capability's response is a failure: it raises, or an item
\* lacks its text field.
ResponseFails(r) ==
    \/ r.raised # NoExc
    \/ \E i \in 1 .. Len(r.items) : "text" \notin DOMAIN r.items[i]

\* C1: for every URL of a canonical shape that carries a valid token of
\* exactly 11 characters, extract_video_id returns exactly that token,
\* whatever the scheme, host, earlier path segments and other parameters.
C1_CanonicalTokenReturned ==
    pc = "extract_video_id" =>
        \A p \in UrlParts :
            ( /\ BuildUrl(p) = youtube_url
              /\ p.shape \in CanonicalShapes
              /\ IsToken(p.run) )
            => video_id = p.run

\* C2: a URL with no recognizable token yields None, and a returned value is
\* a complete token of the URL, never a piece of a longer run, of a host
\* name or of an unrelated path segment.
C2_NoneOrCompleteToken ==
    pc = "extract_video_id" =>
        /\ (\A i \in 1 .. Len(youtube_url) : ~RecognizableAt(youtube_url, i))
              => video_id = None
        /\ video_id # None =>
              \E i \in 1 .. Len(youtube_url) :
                  /\ RecognizableAt(youtube_url, i)
                  /\ video_id = SubSeq(youtube_url, i, i + TokenLen - 1)

\* C3: in a pipeline run no external call is made after the resolver yields
\* "not found", and the summarization capability is neither constructed nor
\* called after the acquirer yields "unavailable"; the calls made follow the
\* order title lookup, transcript fetch, summarization.
C3_CallsOnlyAfterSuccess ==
    /\ not_(video_id) => calls = <<>>
    /\ transcript = None =>
          /\ CALL_pipeline \notin Range(calls)
          /\ CALL_summarizer \notin Range(calls)
    /\ \A i \in 1 .. Len(calls) :
          /\ calls[i] = CALL_transcript => i = 2 /\ calls[1] = CALL_title
          /\ calls[i] = CALL_pipeline => i = 3 /\ calls[2] = CALL_transcript
          /\ calls[i] = CALL_summarizer => i = 4 /\ calls[3] = CALL_pipeline

\* C3 witness: a run that stopped at an unavailable transcript, after the
\* title lookup and the one transcript fetch.
C3_Witness ==
    /\ pc = "done"
    /\ api # NoApi
    /\ transcript = None
    /\ calls = <<CALL_title, CALL_transcript>>

\* C4: whenever the acquirer returned a document rather than "unavailable",
\* for any number of segments and also with an empty joined text, the run
\* invokes the summarizer and ends with a summary result.
C4_DocumentAlwaysSummarized ==
    (pc = "done" /\ api # NoApi /\ transcript # None) =>
        /\ summary # None
        /\ CALL_pipeline \in Range(calls)

\* C5: when the summarization capability fails, generate_summary raises
\* nothing and returns the failure marker and a reason, followed by the
\* first 500 characters of the original input text and `...`.
C5_FallbackOnFailure ==
    (pc = "generate_summary" /\ CapFails(cap)) =>
        LET tail == FailMid \o Slice(text_in, FallbackLen) \o Dots IN
        /\ uncaught = NoExc
        /\ HasAt(summary, 1, FailHead)
        /\ Len(summary) >= Len(FailHead) + Len(tail)
        /\ SubSeq(summary, Len(summary) - Len(tail) + 1, Len(summary)) = tail

\* C5 witness: the capability failed at the call, on a text longer than
\* 1000 characters, which was truncated before the failure.
C5_Witness ==
    /\ pc = "generate_summary"
    /\ cap.call # NoExc
    /\ Len(text_in) > TruncLimit
    /\ cap_text # text_in
    /\ summary # None

\* C6: the capability is called with the input text itself when it has at
\* most 1000 characters, and with its first 1000 characters followed by
\* `...` otherwise; on success its summary string is returned verbatim.
C6_CapabilityInput ==
    (pc = "generate_summary" /\ cap.construct = NoExc) =>
        /\ Len(text_in) <= TruncLimit => cap_text = text_in
        /\ Len(text_in) > TruncLimit =>
              /\ Len(cap_text) = TruncLimit + 3
              /\ \A i \in 1 .. TruncLimit : cap_text[i] = text_in[i]
              /\ \A i \in (TruncLimit + 1) .. (TruncLimit + 3) : cap_text[i] = "."
        /\ ~CapFails(cap) => summary = cap.result[1].summary_text

\* C6 witness: a text of exactly 1000 characters went to the capability, and
\* the capability's summary was returned.
C6_Witness ==
    /\ pc = "generate_summary"
    /\ Len(text_in) = TruncLimit
    /\ ~CapFails(cap)
    /\ cap_text = text_in
    /\ summary = cap.result[1].summary_text

\* C7: get_transcript lets no exception reach its caller; every failure of
\* the capability and every malformed response yields (None, 0), after
\* exactly one call to the capability.
C7_FailuresCollapse ==
    pc = "get_transcript" =>
        /\ uncaught = NoExc
        /\ calls = <<CALL_transcript>>
        /\ ResponseFails(api[1]) => transcript = None /\ sentence_count = 0

\* C7 witness: the first call raised although a second one would have
\* succeeded, and the result is "unavailable".
C7_Witness ==
    /\ pc = "get_transcript"
    /\ api[1].raised # NoExc
    /\ api[2].raised = NoExc
    /\ transcript = None
    /\ sentence_count = 0

\* Position before the k-th segment in the joined text: the lengths of the
\* earlier segments and one separator after each.
RECURSIVE OffsetOf(_, _)
OffsetOf(items, k) ==
    IF k = 1 THEN 0
    ELSE OffsetOf(items, k - 1) + Len(items[k - 1].text) + 1

\* C8: for N >= 0 segments, the full text is the segment texts in source
\* order with exactly one space between consecutive ones, and the segment
\* count is N.
C8_JoinAndCount ==
    (pc = "get_transcript" /\ ~ResponseFails(api[1])) =>
        LET items == api[1].items
            N == Len(items) IN
        /\ sentence_count = N
        /\ N = 0 => transcript = <<>>
        /\ N > 0 =>
              /\ Len(transcript) = OffsetOf(items, N) + Len(items[N].text)
              /\ \A k \in 1 .. N :
                    /\ SubSeq(transcript, OffsetOf(items, k) + 1,
                              OffsetOf(items, k) + Len(items[k].text))
                          = items[k].text
                    /\ k > 1 => transcript[OffsetOf(items, k)] = " "

\* C8 witness: two segments of different lengths were joined.
C8_Witness ==
    /\ pc = "get_transcript"
    /\ ~ResponseFails(api[1])
    /\ Len(api[1].items) = 2
    /\ Len(api[1].items[1].text) > Len(api[1].items[2].text)
    /\ Len(api[1].items[2].text) > 0
    /\ sentence_count = 2

\* The status messages among the rendered widgets.
StatusShown ==
    { m \in Range(rendered) : m[1] \in {"info", "warning", "error", "success"} }

\* C9: every failed run renders a status that tells which failure occurred:
\* the statuses of a resolution failure, of an acquisition failure and of a
\* summarization failure differ from one another and from the status of a
\* fully successful run.
C9_StatusTellsFailure ==
    pc = "done" =>
        /\ (summarize_btn /\ youtube_url # <<>> /\ not_(video_id))
              => StatusShown = { <<"error", MSG_invalid_url>> }
        /\ (api # NoApi /\ transcript = None)
              => StatusShown = { <<"error", MSG_no_transcript>> }
        /\ (text_in # None /\ ~CapFails(cap))
              => StatusShown = { <<"success", MSG_success>> }
        /\ (text_in # None /\ CapFails(cap))
              => /\ StatusShown # {}
                 /\ StatusShown \notin
                        { { <<"error", MSG_invalid_url>> },
                          { <<"error", MSG_no_transcript>> },
                          { <<"success", MSG_success>> } }

\* C10: extract_video_id returns what a search with the first pattern alone
\* returns, and a URL matched by the embed/ or the shorts/ pattern is
\* matched by the first pattern.
C10_FirstPatternDecides ==
    pc = "extract_video_id" =>
        LET first == re_search_group1(<<LIT_v_eq, LIT_slash>>, youtube_url) IN
        /\ video_id = first
        /\ \A lit \in {LIT_embed, LIT_shorts} :
              re_search_group1(<<lit>>, youtube_url) # None => first # None

\* C10 witness: a URL that the embed/ pattern matches was resolved.
C10_Witness ==
    /\ pc = "extract_video_id"
    /\ re_search_group1(<<LIT_embed>>, youtube_url) # None
    /\ video_id = re_search_group1(<<LIT_embed>>, youtube_url)

============================================================================
